---- MODULE Spec2Model ----
(***************************************************************************)
(* A model of goquery's statement cache (Statements, TableDataSet), its    *)
(* fluent insert builder and the DuckDB dialect.                           *)
(*                                                                         *)
(* Go maps are reference values: a TableDataSet holds a reference to a map *)
(* object, or nil.  The heap maps references to map objects; a map object  *)
(* is a function whose DOMAIN is the set of keys present.                  *)
(***************************************************************************)
EXTENDS Integers, Sequences, FiniteSets, TLC

VARIABLES
    ds,         \* the TableDataSet instances: Name, Schema, Statements, TableFields
    heap,       \* the map objects the Statements fields refer to
    last,       \* the call that completed last, with what it returned
    pre,        \* ds and heap as they were when that call started
    fi,         \* the FluentInsert builder
    given,      \* the setters called on the builder, each with its last argument
    calls,      \* the InsertRecs calls so far: how many, what each dataset's did,
                \* and what the builder made last handed over
    genCount,   \* how often the store generated an INSERT statement
    gor,        \* the goroutines of the concurrent implicit insert
    crashed,    \* the Go runtime aborted the process (concurrent map writes)
    txn,        \* the transaction manager
    db,         \* the rows the backing store shows outside the transaction
    bindIn,     \* the arguments of the dialect's Bind
    bindOut     \* what Bind returned, call by call

dsVars == <<ds, heap, last, pre>>
insVars == <<fi, given, calls, genCount>>
concVars == <<gor, crashed>>
txVars == <<txn, db>>
bindVars == <<bindIn, bindOut>>
vars == <<ds, heap, last, pre, fi, given, calls, genCount, gor, crashed, txn, db, bindIn, bindOut>>

----------------------------------------------------------------------------
(* Values *)

Instances == {"A", "B"}

\* the nil map reference
Nil == 0

\* there are never more map objects than datasets that can make one
Refs == 1 .. Cardinality(Instances)

selectkey == "select"

insertkey == "insert"

Keys == {selectkey, insertkey, "k1"}

Stmts == {"", "s1", "s2"}

NoErr == "nil"

InvalidStatement == "Invalid statement"

EmptyMap == [k \in {} |-> ""]

\* m[k] = v of a Go map
MapPut(m, k, v) == [j \in (DOMAIN m) \cup {k} |-> IF j = k THEN v ELSE m[j]]

\* the map object behind a reference; reading a nil map reads an empty one
Deref(h, r) == IF r = Nil THEN EmptyMap ELSE h[r]

----------------------------------------------------------------------------
(* Statements.  The receiver is the map reference r; the method can read  *)
(* and write the map object behind it, so it gives the heap back.          *)

GetAbsentAsEmpty(h, r, key) ==
    LET s == Deref(h, r)
    IN  IF key \in DOMAIN s /\ s[key] # ""
        THEN [heap |-> h, val |-> s[key], err |-> NoErr, panic |-> NoErr]
        ELSE [heap |-> h, val |-> "", err |-> InvalidStatement, panic |-> NoErr]

Get(h, r, key) ==
    LET s == Deref(h, r)
    IN  IF key \in DOMAIN s
        THEN [heap |-> h, val |-> s[key], err |-> NoErr, panic |-> NoErr]
        ELSE [heap |-> h, val |-> "", err |-> InvalidStatement, panic |-> NoErr]

GetOrPanicReturnsEmpty(h, r, key) ==
    LET s == Deref(h, r)
    IN  IF key \in DOMAIN s
        THEN [heap |-> h, val |-> s[key], err |-> NoErr, panic |-> NoErr]
        ELSE [heap |-> h, val |-> "", err |-> NoErr, panic |-> NoErr]

GetOrPanic(h, r, key) ==
    LET s == Deref(h, r)
    IN  IF key \in DOMAIN s
        THEN [heap |-> h, val |-> s[key], err |-> NoErr, panic |-> NoErr]
        ELSE [heap |-> h, val |-> "", err |-> NoErr, panic |-> InvalidStatement]

----------------------------------------------------------------------------
(* TableDataSet.  Every method takes the datasets and the heap and gives   *)
(* them back with its result, so that what it writes is what is checked.   *)

\* make(map[string]string): a new, empty map object
makeShared(d, h) == 1

make(d, h) == CHOOSE r \in Refs : \A t \in Instances : d[t].Statements # r

FieldSlice(d, h, t) ==
    [ds |-> d, heap |-> h, str |-> <<"[", "]">> \o d[t].TableFields]

Fields(d, h, t) ==
    [ds |-> d, heap |-> h, str |-> d[t].TableFields]

EntityAlwaysQualified(d, h, t) ==
    [ds |-> d, heap |-> h, str |-> d[t].Schema \o <<".">> \o d[t].Name]

Entity(d, h, t) ==
    [ds |-> d, heap |-> h,
     str |-> IF d[t].Schema # <<>>
             THEN d[t].Schema \o <<".">> \o d[t].Name
             ELSE d[t].Name]

CommandsLazyInit(d, h, t) ==
    LET r == IF d[t].Statements = Nil THEN make(d, h) ELSE d[t].Statements
    IN  [ds |-> [d EXCEPT ![t].Statements = r], heap |-> h, ref |-> r]

Commands(d, h, t) ==
    [ds |-> d, heap |-> h, ref |-> d[t].Statements]

PutCommandIfAbsent(d, h, t, key, stmt) ==
    LET r == IF d[t].Statements = Nil THEN make(d, h) ELSE d[t].Statements
        m == IF d[t].Statements = Nil THEN EmptyMap ELSE h[r]
    IN  [ds |-> [d EXCEPT ![t].Statements = r],
         heap |-> [h EXCEPT ![r] = IF selectkey \in DOMAIN m THEN m
                                   ELSE MapPut(m, selectkey, stmt)]]

PutCommand(d, h, t, key, stmt) ==
    LET r == IF d[t].Statements = Nil THEN make(d, h) ELSE d[t].Statements
        m == IF d[t].Statements = Nil THEN EmptyMap ELSE h[r]
    IN  [ds |-> [d EXCEPT ![t].Statements = r],
         heap |-> [h EXCEPT ![r] = MapPut(m, selectkey, stmt)]]

----------------------------------------------------------------------------
(* FluentInsert *)

defaultBatchSize == 100

NoTx == "nil"

NoRecords == "nil"

\* the builder before store.Insert has made one
NoBuilder ==
    [bound |-> FALSE, ds |-> "A", batch |-> FALSE, batchSize |-> 0, tx |-> NoTx,
     records |-> NoRecords, panicOnErr |-> FALSE]

Tx(i, tx) == [i EXCEPT !.tx = tx]

BatchAlsoSizes(i, batch) ==
    [i EXCEPT !.batch = batch, !.batchSize = IF batch THEN defaultBatchSize ELSE 0]

Batch(i, batch) == [i EXCEPT !.batch = batch]

BatchSize(i, bs) == [i EXCEPT !.batchSize = bs]

Records(i, recs) == [i EXCEPT !.records = recs]

PanicOnErr(i, panicOnErr) == [i EXCEPT !.panicOnErr = panicOnErr]

\* the arguments Execute hands to store.InsertRecs
ExecuteNeverPanics(i) ==
    [tx |-> i.tx,
     ii |-> [Dataset |-> i.ds, Records |-> i.records, Batch |-> i.batch,
             BatchSize |-> i.batchSize, PanicOnErr |-> FALSE]]

ExecuteOmitsBatchSize(i) ==
    [tx |-> i.tx,
     ii |-> [Dataset |-> i.ds, Records |-> i.records, Batch |-> i.batch,
             BatchSize |-> 0, PanicOnErr |-> i.panicOnErr]]

Execute(i) ==
    [tx |-> i.tx,
     ii |-> [Dataset |-> i.ds, Records |-> i.records, Batch |-> i.batch,
             BatchSize |-> i.batchSize, PanicOnErr |-> i.panicOnErr]]

----------------------------------------------------------------------------
(* The store.  Its code is not among the sources; it is modelled from the  *)
(* specification (4.2, 4.4, 4.5) and from the README's examples.           *)

\* store.Insert(ds): a builder bound to the dataset; the batch size starts
\* at its default (4.4: "BatchSize (default 100)"), every other option at zero
StoreInsert(t) ==
    [NoBuilder EXCEPT !.bound = TRUE, !.ds = t, !.batchSize = defaultBatchSize]

\* the INSERT statement derived from the dataset's record descriptor
InsertStmt(d, t) == IF t = "A" THEN "insert A" ELSE "insert B"

\* the statement an insert into dataset t runs: the one cached under the
\* reserved key, else a generated one that is memoized with PutCommand
ResolveInsert(d, h, t) ==
    LET c == Deref(h, Commands(d, h, t).ref)
    IN  IF insertkey \in DOMAIN c
        THEN [ds |-> d, heap |-> h, stmt |-> c[insertkey], generated |-> FALSE]
        ELSE LET stmt == InsertStmt(d, t)
                 r == PutCommand(d, h, t, insertkey, stmt)
             IN  [ds |-> r.ds, heap |-> r.heap, stmt |-> stmt, generated |-> TRUE]

\* store.InsertRecs(tx, ii); ok is whether the backend accepts the insert,
\* chunk the most records submitted in one backend operation
InsertRecs(d, h, tx, ii, ok) ==
    LET r == ResolveInsert(d, h, ii.Dataset)
    IN  [ds |-> r.ds, heap |-> r.heap, stmt |-> r.stmt, generated |-> r.generated,
         chunk |-> IF ii.Batch THEN ii.BatchSize ELSE 1,
         err |-> IF ok \/ ii.PanicOnErr THEN NoErr ELSE "insert failed",
         panic |-> IF ~ok /\ ii.PanicOnErr THEN "insert failed" ELSE NoErr]

----------------------------------------------------------------------------
(* The callers of the dataset API, one call per step *)

ReadOps == {"Get", "GetOrPanic", "Entity", "Fields", "FieldSlice", "Commands"}

NoCall ==
    [op |-> "none", t |-> "A", key |-> "", stmt |-> "", after |-> "none",
     val |-> "", err |-> NoErr, panic |-> NoErr, ref |-> Nil, str |-> <<>>]

Snapshot == [ds |-> ds, heap |-> heap]

\* the statement of the call before this one when that was PutCommand on the
\* same dataset with the same key
After(t, key) ==
    IF last.op = "PutCommand" /\ last.t = t /\ last.key = key
    THEN last.stmt ELSE "none"

CallPutCommand ==
    \E t \in Instances, key \in Keys, stmt \in Stmts :
        LET r == PutCommand(ds, heap, t, key, stmt)
        IN  /\ pre' = Snapshot
            /\ ds' = r.ds
            /\ heap' = r.heap
            /\ last' = [NoCall EXCEPT !.op = "PutCommand", !.t = t, !.key = key,
                                      !.stmt = stmt, !.after = After(t, key)]
            /\ UNCHANGED <<insVars, concVars, txVars, bindVars>>

CallGet ==
    \E t \in Instances, key \in Keys :
        LET r == Get(heap, ds[t].Statements, key)
        IN  /\ pre' = Snapshot
            /\ ds' = ds
            /\ heap' = r.heap
            /\ last' = [NoCall EXCEPT !.op = "Get", !.t = t, !.key = key,
                                      !.val = r.val, !.err = r.err, !.panic = r.panic]
            /\ UNCHANGED <<insVars, concVars, txVars, bindVars>>

CallGetOrPanic ==
    \E t \in Instances, key \in Keys :
        LET r == GetOrPanic(heap, ds[t].Statements, key)
        IN  /\ pre' = Snapshot
            /\ ds' = ds
            /\ heap' = r.heap
            /\ last' = [NoCall EXCEPT !.op = "GetOrPanic", !.t = t, !.key = key,
                                      !.val = r.val, !.err = r.err, !.panic = r.panic]
            /\ UNCHANGED <<insVars, concVars, txVars, bindVars>>

CallEntity ==
    \E t \in Instances :
        LET r == Entity(ds, heap, t)
        IN  /\ pre' = Snapshot
            /\ ds' = r.ds
            /\ heap' = r.heap
            /\ last' = [NoCall EXCEPT !.op = "Entity", !.t = t, !.str = r.str]
            /\ UNCHANGED <<insVars, concVars, txVars, bindVars>>

CallFields ==
    \E t \in Instances :
        LET r == Fields(ds, heap, t)
        IN  /\ pre' = Snapshot
            /\ ds' = r.ds
            /\ heap' = r.heap
            /\ last' = [NoCall EXCEPT !.op = "Fields", !.t = t, !.str = r.str]
            /\ UNCHANGED <<insVars, concVars, txVars, bindVars>>

CallFieldSlice ==
    \E t \in Instances :
        LET r == FieldSlice(ds, heap, t)
        IN  /\ pre' = Snapshot
            /\ ds' = r.ds
            /\ heap' = r.heap
            /\ last' = [NoCall EXCEPT !.op = "FieldSlice", !.t = t, !.str = r.str]
            /\ UNCHANGED <<insVars, concVars, txVars, bindVars>>

CallCommands ==
    \E t \in Instances :
        LET r == Commands(ds, heap, t)
        IN  /\ pre' = Snapshot
            /\ ds' = r.ds
            /\ heap' = r.heap
            /\ last' = [NoCall EXCEPT !.op = "Commands", !.t = t, !.ref = r.ref]
            /\ UNCHANGED <<insVars, concVars, txVars, bindVars>>

----------------------------------------------------------------------------
(* Initial states *)

\* the statement maps a caller's dataset literal starts with
InitMaps ==
    { EmptyMap,
      ("k1" :> ""),
      (selectkey :> "s1" @@ "k1" :> "s2"),
      (insertkey :> "s2") }

\* A has no schema, B has one; each has no map, a map of its own, or both
\* were built from the same Statements value
DsInit ==
    /\ \E a \in {Nil, 1}, b \in {Nil, 1, 2} :
          /\ b = 2 => a = 1
          /\ ds = [t \in Instances |->
                     [Name |-> <<"f", "s">>,
                      Schema |-> IF t = "A" THEN <<>> ELSE <<"p">>,
                      Statements |-> IF t = "A" THEN a ELSE b,
                      TableFields |-> <<"F">>]]
          /\ heap \in [Refs -> InitMaps]
          /\ \A r \in Refs : r \notin {a, b} => heap[r] = EmptyMap
    /\ last = NoCall
    /\ pre = Snapshot

----------------------------------------------------------------------------
(* The DuckDB dialect.  Strings are sequences of characters.               *)

DigitChars == <<"0", "1", "2", "3", "4", "5", "6", "7", "8", "9">>

RECURSIVE FormatNat(_)
FormatNat(n) ==
    IF n < 10 THEN <<DigitChars[n + 1]>>
    ELSE FormatNat(n \div 10) \o <<DigitChars[(n % 10) + 1]>>

\* the %d verb of fmt.Sprintf
FormatInt(n) == IF n < 0 THEN <<"-">> \o FormatNat(-n) ELSE FormatNat(n)

BindZeroBased(field, i) == <<"$">> \o FormatInt(i)

Bind(field, i) == <<"$">> \o FormatInt(i + 1)

----------------------------------------------------------------------------
(* Concurrent implicit inserts into dataset A: every goroutine runs the    *)
(* store's lookup and generation (modelled from the specification) and     *)
(* then PutCommand, statement by statement.  Nothing in PutCommand or in   *)
(* TableDataSet takes a lock.                                              *)

Goroutines == {"g1", "g2"}

SharedDs == "A"

\* between PutCommand's nil check and the end of its map write
InPutCommand == {"put_make", "put_write", "writing"}

\* the goroutines other than g that are in the middle of a map write
Writers(g) == {o \in Goroutines \ {g} : gor[o].pc = "writing"}

\* the statement lookup: a map read.  A read during another goroutine's
\* write is a data race; the runtime may abort ("concurrent map read and
\* map write") or the read may go through.
GoLookup(g) ==
    /\ ~crashed
    /\ gor[g].pc = "idle"
    /\ \/ /\ gor' = [gor EXCEPT ![g].pc =
                    IF insertkey \in DOMAIN Deref(heap, Commands(ds, heap, SharedDs).ref)
                    THEN "done" ELSE "generate"]
          /\ UNCHANGED crashed
       \/ /\ Writers(g) # {}
          /\ crashed' = TRUE
          /\ UNCHANGED gor
    /\ UNCHANGED <<ds, heap, last, pre, insVars, txVars, bindVars>>

GoGenerate(g) ==
    /\ ~crashed
    /\ gor[g].pc = "generate"
    /\ genCount' = [genCount EXCEPT ![SharedDs] = @ + 1]
    /\ gor' = [gor EXCEPT ![g].pc = "put_check"]
    /\ UNCHANGED <<ds, heap, last, pre, fi, given, calls, crashed, txVars, bindVars>>

\* if t.Statements == nil
GoPutCheck(g) ==
    /\ ~crashed
    /\ gor[g].pc = "put_check"
    /\ gor' = [gor EXCEPT ![g].pc =
                  IF ds[SharedDs].Statements = Nil THEN "put_make" ELSE "put_write"]
    /\ UNCHANGED <<ds, heap, last, pre, insVars, crashed, txVars, bindVars>>

\* t.Statements = make(map[string]string)
GoPutMake(g) ==
    /\ ~crashed
    /\ gor[g].pc = "put_make"
    /\ LET r == make(ds, heap)
       IN  /\ ds' = [ds EXCEPT ![SharedDs].Statements = r]
           /\ heap' = [heap EXCEPT ![r] = EmptyMap]
    /\ gor' = [gor EXCEPT ![g].pc = "put_write"]
    /\ UNCHANGED <<last, pre, insVars, crashed, txVars, bindVars>>

\* t.Statements[selectkey] = stmt begins.  Beginning a write while another
\* write is going on is a data race; the runtime may abort ("concurrent map
\* writes") or the write may go through.
GoPutWriteBegin(g) ==
    /\ ~crashed
    /\ gor[g].pc = "put_write"
    /\ \/ /\ gor' = [gor EXCEPT ![g].pc = "writing"]
          /\ UNCHANGED crashed
       \/ /\ Writers(g) # {}
          /\ crashed' = TRUE
          /\ UNCHANGED gor
    /\ UNCHANGED <<ds, heap, last, pre, insVars, txVars, bindVars>>

\* t.Statements[selectkey] = stmt ends
GoPutWriteEnd(g) ==
    /\ ~crashed
    /\ gor[g].pc = "writing"
    /\ LET r == ds[SharedDs].Statements
       IN  heap' = [heap EXCEPT ![r] = MapPut(heap[r], selectkey, InsertStmt(ds, SharedDs))]
    /\ gor' = [gor EXCEPT ![g].pc = "done"]
    /\ UNCHANGED <<ds, last, pre, insVars, crashed, txVars, bindVars>>

----------------------------------------------------------------------------
(* Transaction(body).  The store's code is not among the sources; the      *)
(* manager is modelled from the specification (4.6) and the body from the  *)
(* README: statements in a transaction body panic on failure, an insert    *)
(* through the fluent builder with PanicOnErr(true) or a MustExec.         *)

MaxBody == 2

Rows == {101, 102}

BodyStatements == [kind : {"insert", "mustexec"}, row : Rows]

Bodies == UNION {[1 .. n -> BodyStatements] : n \in 0 .. MaxBody}

NoTransaction ==
    [state |-> "Idle", body |-> <<>>, pc |-> 1, pending |-> {}, db0 |-> {},
     panic |-> NoErr, ret |-> "none"]

BodyRows(body) == {body[k].row : k \in 1 .. Len(body)}

\* Idle -> Active: begin, then run the body
Transaction ==
    /\ txn.state = "Idle"
    /\ \E body \in Bodies :
          txn' = [NoTransaction EXCEPT !.state = "Active", !.body = body, !.db0 = db]
    /\ UNCHANGED <<db, dsVars, insVars, concVars, bindVars>>

Running ==
    /\ txn.state = "Active"
    /\ txn.panic = NoErr
    /\ txn.pc <= Len(txn.body)

\* store.Insert(&fs).Records(&rec).Tx(&tx).PanicOnErr(true).Execute()
BodyInsert ==
    /\ Running
    /\ txn.body[txn.pc].kind = "insert"
    /\ \E ok \in BOOLEAN :
          LET i == PanicOnErr(Tx(Records(StoreInsert("A"), txn.body[txn.pc].row), "tx1"), TRUE)
              e == Execute(i)
              r == InsertRecs(ds, heap, e.tx, e.ii, ok)
          IN  /\ ds' = r.ds
              /\ heap' = r.heap
              /\ txn' = [txn EXCEPT !.pc = IF r.panic = NoErr THEN @ + 1 ELSE @,
                                    !.panic = r.panic,
                                    !.pending = IF ok THEN @ \cup {e.ii.Records} ELSE @]
    /\ UNCHANGED <<db, last, pre, insVars, concVars, bindVars>>

\* store.MustExec(&tx, "insert into fishing_spots values ($1,$2)", ...)
BodyMustExec ==
    /\ Running
    /\ txn.body[txn.pc].kind = "mustexec"
    /\ \E ok \in BOOLEAN :
          txn' = [txn EXCEPT !.pc = IF ok THEN @ + 1 ELSE @,
                            !.panic = IF ok THEN NoErr ELSE "exec failed",
                            !.pending = IF ok THEN @ \cup {txn.body[txn.pc].row} ELSE @]
    /\ UNCHANGED <<db, dsVars, insVars, concVars, bindVars>>

\* Active -> Committed: the body returned
Commit ==
    /\ txn.state = "Active"
    /\ txn.panic = NoErr
    /\ txn.pc > Len(txn.body)
    /\ db' = db \cup txn.pending
    /\ txn' = [txn EXCEPT !.state = "Committed", !.ret = NoErr]
    /\ UNCHANGED <<dsVars, insVars, concVars, bindVars>>

\* Active -> RolledBack: the body panicked; the failure goes to the caller
Rollback ==
    /\ txn.state = "Active"
    /\ txn.panic # NoErr
    /\ db' = db
    /\ txn' = [txn EXCEPT !.state = "RolledBack", !.ret = txn.panic]
    /\ UNCHANGED <<dsVars, insVars, concVars, bindVars>>

----------------------------------------------------------------------------
(* What the variables of the other parts hold while a part is not running *)

\* no InsertRecs call received yet
NoCalls ==
    [n |-> 0, tx |-> NoTx, ii |-> Execute(NoBuilder).ii,
     chunk |-> 1, err |-> NoErr, panic |-> NoErr,
     log |-> [t \in Instances |-> <<>>]]

\* no setter called yet
NoneGiven ==
    [called |-> {}, ds |-> "A", tx |-> NoTx, batch |-> FALSE, batchSize |-> 0,
     records |-> NoRecords, panicOnErr |-> FALSE]

InsIdle ==
    /\ fi = NoBuilder
    /\ given = NoneGiven
    /\ calls = NoCalls
    /\ genCount = [t \in Instances |-> 0]

ConcIdle ==
    /\ gor = [g \in Goroutines |-> [pc |-> "idle"]]
    /\ crashed = FALSE

TxIdle ==
    /\ txn = NoTransaction
    /\ db = {}

BindIdle ==
    /\ bindIn = [field |-> "", i |-> 0]
    /\ bindOut = <<>>

----------------------------------------------------------------------------
(* The dataset API under a sequential caller *)

Init == DsInit /\ InsIdle /\ ConcIdle /\ TxIdle /\ BindIdle

Next ==
    \/ CallPutCommand
    \/ CallGet
    \/ CallGetOrPanic
    \/ CallEntity
    \/ CallFields
    \/ CallFieldSlice
    \/ CallCommands

Spec == Init /\ [][Next]_vars

----------------------------------------------------------------------------
(* Implicit inserts through the fluent builder, one caller *)

MaxExec == 2

TxHandles == {NoTx, "tx1"}

RecordValues == {NoRecords, "recs"}

BatchSizes == {0, 50}

NewInsert ==
    /\ ~fi.bound
    /\ calls.n < MaxExec
    /\ \E t \in Instances :
          /\ fi' = StoreInsert(t)
          /\ given' = [NoneGiven EXCEPT !.called = {"Insert"}, !.ds = t]
    /\ calls' = [NoCalls EXCEPT !.n = calls.n, !.log = calls.log]
    /\ UNCHANGED <<genCount, dsVars, concVars, txVars, bindVars>>

SetTx ==
    /\ fi.bound
    /\ \E tx \in TxHandles :
          /\ fi' = Tx(fi, tx)
          /\ given' = [given EXCEPT !.called = @ \cup {"Tx"}, !.tx = tx]
    /\ UNCHANGED <<calls, genCount, dsVars, concVars, txVars, bindVars>>

SetBatch ==
    /\ fi.bound
    /\ \E b \in BOOLEAN :
          /\ fi' = Batch(fi, b)
          /\ given' = [given EXCEPT !.called = @ \cup {"Batch"}, !.batch = b]
    /\ UNCHANGED <<calls, genCount, dsVars, concVars, txVars, bindVars>>

SetBatchSize ==
    /\ fi.bound
    /\ \E bs \in BatchSizes :
          /\ fi' = BatchSize(fi, bs)
          /\ given' = [given EXCEPT !.called = @ \cup {"BatchSize"}, !.batchSize = bs]
    /\ UNCHANGED <<calls, genCount, dsVars, concVars, txVars, bindVars>>

SetRecords ==
    /\ fi.bound
    /\ \E recs \in RecordValues :
          /\ fi' = Records(fi, recs)
          /\ given' = [given EXCEPT !.called = @ \cup {"Records"}, !.records = recs]
    /\ UNCHANGED <<calls, genCount, dsVars, concVars, txVars, bindVars>>

SetPanicOnErr ==
    /\ fi.bound
    /\ \E p \in BOOLEAN :
          /\ fi' = PanicOnErr(fi, p)
          /\ given' = [given EXCEPT !.called = @ \cup {"PanicOnErr"}, !.panicOnErr = p]
    /\ UNCHANGED <<calls, genCount, dsVars, concVars, txVars, bindVars>>

\* the terminal call; the builder is discarded after it
DoExecute ==
    /\ fi.bound
    /\ \E ok \in BOOLEAN :
          LET e == Execute(fi)
              r == InsertRecs(ds, heap, e.tx, e.ii, ok)
              t == e.ii.Dataset
          IN  /\ ds' = r.ds
              /\ heap' = r.heap
              /\ genCount' = [genCount EXCEPT ![t] = @ + (IF r.generated THEN 1 ELSE 0)]
              /\ calls' = [n |-> calls.n + 1, tx |-> e.tx, ii |-> e.ii,
                           chunk |-> r.chunk, err |-> r.err, panic |-> r.panic,
                           log |-> [calls.log EXCEPT ![t] =
                                       Append(@, IF r.generated THEN "generated" ELSE "reused")]]
    /\ fi' = NoBuilder
    /\ given' = NoneGiven
    /\ UNCHANGED <<last, pre, concVars, txVars, bindVars>>

\* dataset A as the caller built it, dataset B without a Statements map
InsertDsInit ==
    /\ \E a \in {Nil, 1} :
          /\ ds = [t \in Instances |->
                     [Name |-> <<"f", "s">>,
                      Schema |-> IF t = "A" THEN <<>> ELSE <<"p">>,
                      Statements |-> IF t = "A" THEN a ELSE Nil,
                      TableFields |-> <<"F">>]]
          /\ heap \in [Refs -> InitMaps]
          /\ \A r \in Refs : r # a => heap[r] = EmptyMap
    /\ last = NoCall
    /\ pre = Snapshot

InitInsert == InsertDsInit /\ InsIdle /\ ConcIdle /\ TxIdle /\ BindIdle

NextInsert ==
    \/ NewInsert
    \/ SetTx
    \/ SetBatch
    \/ SetBatchSize
    \/ SetRecords
    \/ SetPanicOnErr
    \/ DoExecute

SpecInsert == InitInsert /\ [][NextInsert]_vars

----------------------------------------------------------------------------
(* Two goroutines inserting into one dataset *)

InitConc == InsertDsInit /\ InsIdle /\ ConcIdle /\ TxIdle /\ BindIdle

NextConc ==
    \E g \in Goroutines :
        \/ GoLookup(g)
        \/ GoGenerate(g)
        \/ GoPutCheck(g)
        \/ GoPutMake(g)
        \/ GoPutWriteBegin(g)
        \/ GoPutWriteEnd(g)

SpecConc == InitConc /\ [][NextConc]_vars

----------------------------------------------------------------------------
(* One transaction *)

InitTx ==
    /\ InsertDsInit /\ InsIdle /\ ConcIdle /\ BindIdle
    /\ txn = NoTransaction
    /\ db \in {{}, {100}}

NextTx ==
    \/ Transaction
    \/ BodyInsert
    \/ BodyMustExec
    \/ Commit
    \/ Rollback

SpecTx == InitTx /\ [][NextTx]_vars

----------------------------------------------------------------------------
(* Calls of the dialect's Bind *)

MaxIndex == 120

MaxBindCalls == 2

BindFields == {"id", "location"}

CallBind ==
    /\ Len(bindOut) < MaxBindCalls
    /\ bindOut' = Append(bindOut, Bind(bindIn.field, bindIn.i))
    /\ UNCHANGED <<bindIn, dsVars, insVars, concVars, txVars>>

InitBind ==
    /\ InsertDsInit /\ InsIdle /\ ConcIdle /\ TxIdle
    /\ ds[SharedDs].Statements = Nil
    /\ bindIn \in [field : BindFields, i : 0 .. MaxIndex]
    /\ bindOut = <<>>

NextBind == CallBind

SpecBind == InitBind /\ [][NextBind]_vars

----------------------------------------------------------------------------
(* Properties of the statement cache, under Spec *)

\* the statement map of dataset t now, and when the last call started
Cache(t) == Deref(heap, ds[t].Statements)

CacheBefore(t) == Deref(pre.heap, pre.ds[t].Statements)

\* C1: immediately after PutCommand(k, s) the statement is stored under k:
\* Commands()[k] = s and Statements.Get(k) returns (s, nil).
C1_PutStoresUnderKey ==
    last.op = "PutCommand" =>
        LET c == Commands(ds, heap, last.t).ref
            g == Get(heap, c, last.key)
        IN  /\ last.key \in DOMAIN Deref(heap, c)
            /\ Deref(heap, c)[last.key] = last.stmt
            /\ g.val = last.stmt
            /\ g.err = NoErr

\* C5: Statements.Get never panics; for a key that is present it returns the
\* stored SQL (the empty string too) and a nil error, for an absent key the
\* empty string and the "Invalid statement" error.
C5_GetTotal ==
    last.op = "Get" =>
        /\ last.panic = NoErr
        /\ last.key \in DOMAIN CacheBefore(last.t) =>
               /\ last.val = CacheBefore(last.t)[last.key]
               /\ last.err = NoErr
        /\ last.key \notin DOMAIN CacheBefore(last.t) =>
               /\ last.val = ""
               /\ last.err = InvalidStatement

C5_Witness ==
    /\ last.op = "Get"
    /\ last.key \in DOMAIN CacheBefore(last.t)
    /\ last.val = ""
    /\ last.err = NoErr

\* C6: Statements.GetOrPanic returns the stored SQL when the key is present
\* and panics with "Invalid statement" when it is absent: it panics exactly
\* where Get returns an error and otherwise returns what Get returns.
C6_GetOrPanicLikeGet ==
    last.op = "GetOrPanic" =>
        LET g == Get(pre.heap, pre.ds[last.t].Statements, last.key)
        IN  /\ last.key \in DOMAIN CacheBefore(last.t) =>
                   /\ last.panic = NoErr
                   /\ last.val = CacheBefore(last.t)[last.key]
            /\ last.key \notin DOMAIN CacheBefore(last.t) =>
                   last.panic = InvalidStatement
            /\ (last.panic # NoErr) <=> (g.err # NoErr)
            /\ g.err = NoErr => last.val = g.val

C6_Witness ==
    /\ last.op = "GetOrPanic"
    /\ last.key \notin DOMAIN CacheBefore(last.t)
    /\ last.panic = InvalidStatement

\* C7: PutCommand is an idempotent overwrite: a PutCommand(k, s) right after
\* the same PutCommand(k, s) changes nothing, and PutCommand(k, s2) right
\* after PutCommand(k, s1) leaves what PutCommand(k, s2) alone would have
\* left from the state before the two calls.
C7_IdempotentOverwrite ==
    [][ ( /\ last.op = "PutCommand"
          /\ last'.op = "PutCommand"
          /\ last'.t = last.t
          /\ last'.key = last.key
          /\ last'.after = last.stmt )
        => /\ [ds |-> ds', heap |-> heap']
                = PutCommand(pre.ds, pre.heap, last'.t, last'.key, last'.stmt)
           /\ last'.stmt = last.stmt => (ds' = ds /\ heap' = heap) ]_vars

\* the second of two PutCommands on one key, with another statement, on a
\* dataset that held nothing under the key written before the first
C7_Witness ==
    /\ last.op = "PutCommand"
    /\ last.after \in Stmts
    /\ last.after # last.stmt
    /\ CacheBefore(last.t)[selectkey] = last.after
    /\ Cache(last.t)[selectkey] = last.stmt

\* C8: Get, GetOrPanic, Entity, Fields, FieldSlice and Commands leave every
\* dataset (Name, Schema, TableFields, the Statements reference) and every
\* statement map as they were; only PutCommand changes them, and PutCommand
\* changes no Name, Schema or TableFields.
C8_OnlyPutCommandMutates ==
    /\ last.op \in ReadOps => (ds = pre.ds /\ heap = pre.heap)
    /\ (ds # pre.ds \/ heap # pre.heap) => last.op = "PutCommand"
    /\ \A t \in Instances :
          /\ ds[t].Name = pre.ds[t].Name
          /\ ds[t].Schema = pre.ds[t].Schema
          /\ ds[t].TableFields = pre.ds[t].TableFields

\* Commands() on a dataset that has no Statements map, after a PutCommand on
\* the other one
C8_Witness ==
    /\ last.op = "Commands"
    /\ ds[last.t].Statements = Nil
    /\ \E u \in Instances : insertkey \in DOMAIN Cache(u) /\ selectkey \in DOMAIN Cache(u)

\* two datasets built with their own Statements map, or with none
OwnMaps(d) ==
    \A t, u \in Instances :
        (t # u /\ d[t].Statements # Nil) => d[t].Statements # d[u].Statements

\* C9: the statement cache is per dataset: when the datasets were built with
\* their own Statements map or with none, a PutCommand on one leaves the map
\* reference and the statements of every other dataset as they were, so no
\* lookup in another dataset finds what was put.
C9_PerInstance ==
    (last.op = "PutCommand" /\ OwnMaps(pre.ds)) =>
        \A u \in Instances \ {last.t} :
            /\ Commands(ds, heap, u).ref = Commands(pre.ds, pre.heap, u).ref
            /\ Cache(u) = CacheBefore(u)
            /\ \A k \in Keys :
                  LET now == Get(heap, ds[u].Statements, k)
                      was == Get(pre.heap, pre.ds[u].Statements, k)
                  IN  now.val = was.val /\ now.err = was.err

\* a first PutCommand on a dataset without a map, while the other has one
C9_Witness ==
    /\ last.op = "PutCommand"
    /\ OwnMaps(pre.ds)
    /\ pre.ds[last.t].Statements = Nil
    /\ \E u \in Instances \ {last.t} :
          /\ ds[u].Statements # Nil
          /\ last.key \notin DOMAIN Cache(u)
          /\ selectkey \notin DOMAIN Cache(u)

\* C12: Entity() returns Schema, a dot and Name when Schema is not empty,
\* and exactly Name, with no dot and no prefix, when Schema is empty.
C12_EntityName ==
    last.op = "Entity" =>
        LET schema == ds[last.t].Schema
            name == ds[last.t].Name
        IN  /\ schema # <<>> =>
                   /\ Len(last.str) = Len(schema) + 1 + Len(name)
                   /\ SubSeq(last.str, 1, Len(schema)) = schema
                   /\ last.str[Len(schema) + 1] = "."
                   /\ SubSeq(last.str, Len(schema) + 2, Len(last.str)) = name
            /\ schema = <<>> =>
                   /\ last.str = name
                   /\ \A k \in 1 .. Len(last.str) : last.str[k] # "."

\* Entity() of the dataset without a schema
C12_Witness ==
    /\ last.op = "Entity"
    /\ ds[last.t].Schema = <<>>
    /\ last.str = <<"f", "s">>

\* C14: PutCommand(k, s) changes at most the entry under k: every other key
\* holds after the call the statement it held before, or is absent as
\* before, and a dataset without a Statements map has one afterwards.
C14_OtherKeysKept ==
    last.op = "PutCommand" =>
        /\ ds[last.t].Statements # Nil
        /\ \A j \in Keys \ {last.key} :
              /\ (j \in DOMAIN Cache(last.t)) <=> (j \in DOMAIN CacheBefore(last.t))
              /\ j \in DOMAIN CacheBefore(last.t) =>
                     Cache(last.t)[j] = CacheBefore(last.t)[j]

----------------------------------------------------------------------------
(* Properties of the implicit insert, under SpecInsert *)

\* C2: on a dataset that starts with nothing cached under "insert", the
\* first of two implicit inserts generates the statement and memoizes it
\* under "insert", and the second finds it there and does not generate it
\* again: the generator has run exactly once.
C2_GeneratedOnce ==
    \A t \in Instances :
        (Len(calls.log[t]) >= 2 /\ calls.log[t][1] = "generated") =>
            /\ insertkey \in DOMAIN Cache(t)
            /\ calls.log[t][2] = "reused"
            /\ genCount[t] = 1

----------------------------------------------------------------------------
(* Properties of Transaction, under SpecTx *)

\* C3: Transaction(body) ends committed or rolled back, never both: it
\* commits exactly when the body returned normally, and then every row the
\* body wrote is visible; it rolls back exactly when the body panicked, and
\* then none of the body's rows is visible and the failure is returned to
\* the caller.  At no time are some but not all of the body's rows visible.
C3_CommitOrRollback ==
    LET all == BodyRows(txn.body)
        returned == txn.panic = NoErr /\ txn.pc > Len(txn.body)
    IN  /\ txn.state \in {"Idle", "Active", "Committed", "RolledBack"}
        /\ txn.state = "Committed" =>
               /\ returned
               /\ db = txn.db0 \cup all
               /\ txn.ret = NoErr
        /\ txn.state = "RolledBack" =>
               /\ txn.panic # NoErr
               /\ db = txn.db0
               /\ txn.ret = txn.panic
        /\ txn.state = "Active" => (db = txn.db0 /\ txn.ret = "none")
        /\ txn.state # "Idle" => db \in {txn.db0, txn.db0 \cup all}

\* a body rolled back after its first statement had gone through
C3_Witness ==
    /\ txn.state = "RolledBack"
    /\ txn.pc = 2
    /\ txn.body[1].kind = "insert"
    /\ txn.pending # {}
    /\ txn.pending \cap db = {}

----------------------------------------------------------------------------
(* Properties of the concurrent implicit insert, under SpecConc *)

\* C4: concurrent first-time writes of the implicit insert statement into
\* one dataset are serialized: no two PutCommand executions overlap between
\* the nil check and the end of the map write, and once the inserts are
\* through the statement has been generated at most once.
C4_WritesSerialized ==
    /\ Cardinality({g \in Goroutines : gor[g].pc \in InPutCommand}) <= 1
    /\ (\A g \in Goroutines : gor[g].pc = "done") => genCount[SharedDs] <= 1

----------------------------------------------------------------------------
(* Properties of the DuckDB dialect, under SpecBind *)

IsDigit(c) == \E d \in 1 .. 10 : DigitChars[d] = c

DigitValue(c) == (CHOOSE d \in 1 .. 10 : DigitChars[d] = c) - 1

RECURSIVE DecimalValue(_)
DecimalValue(str) ==
    IF str = <<>> THEN 0
    ELSE 10 * DecimalValue(SubSeq(str, 1, Len(str) - 1)) + DigitValue(str[Len(str)])

\* str is the decimal numeral of n: digits only, no leading zero
IsDecimalOf(str, n) ==
    /\ Len(str) >= 1
    /\ \A k \in 1 .. Len(str) : IsDigit(str[k])
    /\ Len(str) > 1 => str[1] # "0"
    /\ DecimalValue(str) = n

\* C10: for every index i >= 0 and every field, Bind returns "$" followed
\* by the decimal numeral of i + 1, the same on every call and whatever the
\* field, and something else than for any other index.
C10_BindPlaceholder ==
    \A k \in 1 .. Len(bindOut) :
        /\ Len(bindOut[k]) >= 2
        /\ bindOut[k][1] = "$"
        /\ IsDecimalOf(Tail(bindOut[k]), bindIn.i + 1)
        /\ bindOut[k] = bindOut[1]
        /\ \A f \in BindFields : Bind(f, bindIn.i) = bindOut[k]
        /\ \A j \in 0 .. MaxIndex : j # bindIn.i => Bind(bindIn.field, j) # bindOut[k]

\* Bind called twice with an index whose successor has one digit more
C10_Witness ==
    /\ Len(bindOut) = 2
    /\ bindIn.i = 99
    /\ bindOut[2] = <<"$", "1", "0", "0">>

\* a step that is the terminal call of the builder
ExecuteStep == fi.bound /\ ~fi'.bound

Handed(init) ==
    [tx |-> IF "Tx" \in given.called THEN given.tx ELSE NoTx,
     ii |-> [Dataset |-> given.ds,
             Records |-> IF "Records" \in given.called THEN given.records ELSE NoRecords,
             Batch |-> IF "Batch" \in given.called THEN given.batch ELSE FALSE,
             BatchSize |-> IF "BatchSize" \in given.called THEN given.batchSize ELSE init,
             PanicOnErr |-> IF "PanicOnErr" \in given.called THEN given.panicOnErr ELSE FALSE]]

\* a setter call changes its own field of the builder and no other, and
\* Execute makes one InsertRecs call with what the last call of each setter gave
LastSetterWins(init) ==
    /\ (fi.bound /\ fi'.bound) =>
          /\ fi'.ds = fi.ds
          /\ (fi'.tx # fi.tx) =>
                (given' = [given EXCEPT !.called = @ \cup {"Tx"}, !.tx = fi'.tx])
          /\ (fi'.batch # fi.batch) =>
                (given' = [given EXCEPT !.called = @ \cup {"Batch"}, !.batch = fi'.batch])
          /\ (fi'.batchSize # fi.batchSize) =>
                (given' = [given EXCEPT !.called = @ \cup {"BatchSize"}, !.batchSize = fi'.batchSize])
          /\ (fi'.records # fi.records) =>
                (given' = [given EXCEPT !.called = @ \cup {"Records"}, !.records = fi'.records])
          /\ (fi'.panicOnErr # fi.panicOnErr) =>
                (given' = [given EXCEPT !.called = @ \cup {"PanicOnErr"}, !.panicOnErr = fi'.panicOnErr])
    /\ ExecuteStep =>
          /\ calls'.n = calls.n + 1
          /\ calls'.tx = Handed(init).tx
          /\ calls'.ii = Handed(init).ii

====
